---------------------------- MODULE Spec2Model ----------------------------
(***************************************************************************)
(* A model of app.py, the event-registration web application: the public  *)
(* team_register workflow, the admin session guard, and the admin CRUD     *)
(* handlers for events and registrations, over the two MongoDB collections *)
(* "events" and "registrations".                                           *)
(*                                                                         *)
(* Strings are sequences of one-character strings, so that str.strip() and *)
(* int() are computed rather than assumed.  None, a missing document, a    *)
(* datetime and an ObjectId are values distinct from every string.         *)
(***************************************************************************)
EXTENDS Integers, Sequences, FiniteSets, TLC

VARIABLES
    events,     \* events_collection: ObjectId -> event document or NoDoc
    teams,      \* teams_collection ("registrations"): ObjectId -> document or NoDoc
    nextEvent,  \* the next ObjectId the driver generates for an event
    nextTeam,   \* the next ObjectId the driver generates for a registration
    session,    \* the keys of the browser session (Flask's session dict)
    tr,         \* per worker: the team_register request it is serving
    admin       \* the last admin-side request and its answer

vars == <<events, teams, nextEvent, nextTeam, session, tr, admin>>

-----------------------------------------------------------------------------
(* Bounds of the model.                                                    *)

\* the largest max_members of an event present when the workflow starts,
\* and the number of member positions a submitted form may carry
MaxMembers == 2
\* the number of registrations the driver can create ObjectIds for
MaxTeams == 1
\* the number of events the driver can create ObjectIds for
MaxEvents == 2

-----------------------------------------------------------------------------
(* Values.                                                                 *)

None == <<"None">>              \* Python's None
NoDoc == [none |-> TRUE]        \* find_one's "no such document"; None as a document
E == <<>>                       \* the empty string ""

Workers == {"w1"}

DigitChars == <<"0", "1", "2", "3", "4", "5", "6", "7", "8", "9">>

IsDigit(c) == \E d \in 1..10 : DigitChars[d] = c

DigitVal(c) == (CHOOSE d \in 1..10 : DigitChars[d] = c) - 1

\* str(i) of a small non-negative integer, as used by the f-strings
IntStr(i) == IF i < 10 THEN <<DigitChars[i + 1]>>
             ELSE <<DigitChars[(i \div 10) + 1], DigitChars[(i % 10) + 1]>>

\* str.strip(): leading and trailing whitespace removed
RECURSIVE LStrip(_)
LStrip(s) == IF s # <<>> /\ Head(s) = " " THEN LStrip(Tail(s)) ELSE s

RECURSIVE RStrip(_)
RStrip(s) == IF s # <<>> /\ s[Len(s)] = " " THEN RStrip(SubSeq(s, 1, Len(s) - 1)) ELSE s

Strip(s) == RStrip(LStrip(s))

\* str(ObjectId): the identifier as it appears in URLs and serialized documents
OidStr(n) == <<"#">> \o IntStr(n)

\* ObjectId(s): the identifier a well-formed string denotes, 0 when the
\* constructor raises (None or a malformed string)
ObjectId(s) ==
    IF s # None /\ Len(s) = 2 /\ s[1] = "#" /\ IsDigit(s[2]) /\ DigitVal(s[2]) > 0
    THEN DigitVal(s[2]) ELSE 0

\* datetime values and datetime.isoformat()
DateTime(t) == <<"datetime", t>>
IsoFormat(d) == <<"iso", d[2]>>
Times == {"t1", "t2"}

\* doc_to_json: _id becomes its string, every datetime its ISO text
DocToJson(doc) ==
    IF doc = NoDoc THEN doc
    ELSE [k \in DOMAIN doc |->
            IF k = "_id" THEN OidStr(doc[k])
            ELSE IF k \in {"created_at", "updated_at"}
                 THEN IsoFormat(doc[k])
                 ELSE doc[k]]

-----------------------------------------------------------------------------
(* The document store: find_one, insert_one, update_one, delete_one.       *)

StoreOids(coll) == {n \in DOMAIN coll : coll[n] # NoDoc}

\* find_one({"_id": oid}); oid 0 stands for "ObjectId(...) raised"
FindOne(coll, oid) == IF oid \in StoreOids(coll) THEN coll[oid] ELSE NoDoc

\* insert_one(doc): the driver adds the generated _id to the document
InsertOne(coll, oid, doc) == [coll EXCEPT ![oid] = doc @@ [_id |-> oid]]

\* update_one({"_id": oid}, {"$set": fields}): matched_count 0 changes nothing
UpdateOne(coll, oid, fields) ==
    IF oid \in StoreOids(coll) THEN [coll EXCEPT ![oid] = fields @@ @] ELSE coll

\* delete_one({"_id": oid})
DeleteOne(coll, oid) ==
    IF oid \in StoreOids(coll) THEN [coll EXCEPT ![oid] = NoDoc] ELSE coll

\* the failure a store operation raises when the server cannot be reached
StoreErrors == {"AutoReconnect"}

-----------------------------------------------------------------------------
(* Requests.                                                               *)

\* request.form.get(f"member_{i}_<field>", ""): the form carries the keys of
\* positions 1..Len(form.members); an absent key reads as ""
FormGet(form, i, field) ==
    IF i \in 1..Len(form.members) THEN form.members[i][field] ELSE E

NoForm == [team_name |-> E, team_lead_name |-> E, team_lead_email |-> E,
           team_lead_phone |-> E, team_lead_reg_no |-> E, members |-> <<>>]

\* what one member position of a submitted form may hold
MemberInputs ==
    { [name |-> E, email |-> E, reg_no |-> E],
      [name |-> <<" ", "a">>, email |-> <<"m", " ">>, reg_no |-> E],
      [name |-> <<" ">>, email |-> <<"m">>, reg_no |-> E],
      [name |-> E, email |-> E, reg_no |-> <<"r">>] }

LeadInputs ==
    { [team_lead_name |-> <<"L", " ">>, team_lead_email |-> <<" ", "l">>,
       team_lead_phone |-> <<"9", " ">>, team_lead_reg_no |-> E],
      [team_lead_name |-> <<" ">>, team_lead_email |-> <<"l">>,
       team_lead_phone |-> E, team_lead_reg_no |-> E],
      [team_lead_name |-> <<"L">>, team_lead_email |-> E,
       team_lead_phone |-> E, team_lead_reg_no |-> <<"r">>] }

TeamNameInputs == {E, <<" ">>, <<" ", "T">>}

MkForm(t, l, ms) ==
    [team_name |-> t, team_lead_name |-> l.team_lead_name,
     team_lead_email |-> l.team_lead_email, team_lead_phone |-> l.team_lead_phone,
     team_lead_reg_no |-> l.team_lead_reg_no, members |-> ms]

\* the forms a browser submits for an event with n member positions: every
\* position filled in some way, or no member key at all
Forms(n) ==
    {MkForm(t, l, ms) : t \in TeamNameInputs, l \in LeadInputs,
                        ms \in [1..n -> MemberInputs] \cup {<<>>}}

\* the <event_id> part of the URL: none, malformed, or a well-formed id
EventIdInputs == {None, <<"z">>} \cup {OidStr(n) : n \in 1..MaxEvents}

\* an answer: status, rendered template or redirect target, and the
\* template's error / data / form arguments
Response(status, page, error, data, form) ==
    [status |-> status, page |-> page, error |-> error, data |-> data, form |-> form]

NoResponse == Response(0, "", None, NoDoc, NoForm)

Redirect(target) == Response(302, target, None, NoDoc, NoForm)

\* a worker that serves no request
Idle == [pc |-> "idle", method |-> "", event |-> NoDoc, form |-> NoForm, reg_doc |-> NoDoc,
         res_id |-> 0, ops |-> <<>>, resp |-> NoResponse]

-----------------------------------------------------------------------------
(* team_register: the rule evaluation.                                     *)

MemberRequired(i) == <<"Member ">> \o IntStr(i) \o <<" name and email are required.">>
LeadRequired == <<"Team lead name and email are required.">>
TeamNameRequired == <<"Team name is required for this event.">>

\* a slip of line 147: "and" for "or"
RequiredMissingBoth(name, email) == name = E /\ email = E

\* line 147: a required position lacks its name or its email
RequiredMissing(name, email) == name = E \/ email = E

\* a slip of line 151: the registration number is not looked at
IncludeMemberNoRegNo(name, email, reg_no, i, min_members) ==
    name # E \/ email # E \/ i <= min_members

\* line 151: the position's record goes into the member list
IncludeMember(name, email, reg_no, i, min_members) ==
    name # E \/ email # E \/ reg_no # E \/ i <= min_members

\* lines 139-152: the loop over positions i..max_members, with its break
RECURSIVE GatherMembers(_, _, _, _, _)
GatherMembers(form, min_members, max_members, i, members) ==
    IF i > max_members
    THEN [members |-> members, missing_required |-> None]
    ELSE LET name == Strip(FormGet(form, i, "name"))
             email == Strip(FormGet(form, i, "email"))
             reg_no == Strip(FormGet(form, i, "reg_no"))
         IN  IF i <= min_members /\ RequiredMissing(name, email)
             THEN [members |-> members, missing_required |-> MemberRequired(i)]
             ELSE GatherMembers(form, min_members, max_members, i + 1,
                    IF IncludeMember(name, email, reg_no, i, min_members)
                    THEN Append(members, [name |-> name, email |-> email, reg_no |-> reg_no])
                    ELSE members)

\* a slip of line 162: the submitted team name is kept whatever the event asks
TeamNameFieldAlways(form, require_team_name) == Strip(form.team_name)

\* line 162
TeamNameField(form, require_team_name) ==
    IF require_team_name THEN Strip(form.team_name) ELSE None

\* a slip of lines 157-160: the team lead's fields are not checked
ValidationErrorNoLead(form, event) ==
    LET g == GatherMembers(form, event.min_members, event.max_members, 1, <<>>)
    IN  IF g.missing_required # None THEN g.missing_required
        ELSE IF event.require_team_name /\ Strip(form.team_name) = E
             THEN TeamNameRequired
        ELSE None

\* lines 154-164: the answer of the validation, None when the form passes
ValidationError(form, event) ==
    LET g == GatherMembers(form, event.min_members, event.max_members, 1, <<>>)
    IN  IF g.missing_required # None THEN g.missing_required
        ELSE IF Strip(form.team_lead_name) = E \/ Strip(form.team_lead_email) = E
             THEN LeadRequired
        ELSE IF event.require_team_name /\ TeamNameField(form, event.require_team_name) = E
             THEN TeamNameRequired
        ELSE None

\* lines 166-176
RegDoc(form, event, now) ==
    [event_id |-> event._id,
     event_name |-> event.event_name,
     team_name |-> TeamNameField(form, event.require_team_name),
     team_lead_name |-> Strip(form.team_lead_name),
     team_lead_email |-> Strip(form.team_lead_email),
     team_lead_phone |-> Strip(form.team_lead_phone),
     team_lead_reg_no |-> Strip(form.team_lead_reg_no),
     members |-> GatherMembers(form, event.min_members, event.max_members, 1, <<>>).members,
     created_at |-> DateTime(now)]

-----------------------------------------------------------------------------
(* team_register: the handler, one action per store operation it awaits.   *)

ErrorOccurred(e) == <<"An error occurred: ", e>>

Methods == {"GET", "POST"}

\* lines 115-176: from the request to the answer or to the assembled reg_doc.
\* found = FALSE is events_collection.find_one raising, which line 124 turns
\* into "no such event".
TeamRegister(w, method, event_id, form, now, found) ==
    /\ tr[w].pc = "idle"
    /\ UNCHANGED <<events, teams, nextEvent, nextTeam, session, admin>>
    /\ LET oid == ObjectId(event_id)
           event_doc == IF found THEN FindOne(events, oid) ELSE NoDoc
           event == DocToJson(event_doc)
           ops == IF oid = 0 THEN <<>> ELSE <<"events.find_one">>
           error == ValidationError(form, event)
       IN  \/ /\ event_id = None
              /\ found
              /\ tr' = [tr EXCEPT ![w] = [Idle EXCEPT !.pc = "done",
                                            !.resp = Redirect("choose_event")]]
           \/ /\ event_id # None
              /\ found \/ oid # 0
              /\ event_doc = NoDoc
              /\ tr' = [tr EXCEPT ![w] = [Idle EXCEPT !.pc = "done", !.ops = ops,
                            !.resp = Response(404, "Invalid event", None, NoDoc, NoForm)]]
           \/ /\ event_id # None
              /\ event_doc # NoDoc
              /\ method = "GET"
              /\ tr' = [tr EXCEPT ![w] = [Idle EXCEPT !.pc = "done", !.ops = ops,
                            !.method = method, !.event = event,
                            !.resp = Response(200, "team_register.html", None, NoDoc, NoForm)]]
           \/ /\ event_id # None
              /\ event_doc # NoDoc
              /\ method = "POST"
              /\ error # None
              /\ tr' = [tr EXCEPT ![w] = [Idle EXCEPT !.pc = "done", !.ops = ops,
                            !.method = method, !.event = event, !.form = form,
                            !.resp = Response(400, "team_register.html", error, NoDoc, form)]]
           \/ /\ event_id # None
              /\ event_doc # NoDoc
              /\ method = "POST"
              /\ error = None
              /\ tr' = [tr EXCEPT ![w] = [Idle EXCEPT !.pc = "insert", !.ops = ops,
                            !.method = method, !.event = event, !.form = form,
                            !.reg_doc = RegDoc(form, event, now)]]

\* line 179: teams_collection.insert_one(reg_doc)
TeamRegisterInsert(w) ==
    /\ tr[w].pc = "insert"
    /\ UNCHANGED <<events, nextEvent, session, admin>>
    /\ \/ /\ nextTeam <= MaxTeams
          /\ teams' = InsertOne(teams, nextTeam, tr[w].reg_doc)
          /\ nextTeam' = nextTeam + 1
          /\ tr' = [tr EXCEPT ![w].pc = "find",
                              ![w].reg_doc = @ @@ [_id |-> nextTeam],
                              ![w].res_id = nextTeam,
                              ![w].ops = Append(@, "registrations.insert_one")]
       \/ /\ \E e \in StoreErrors :
                tr' = [tr EXCEPT ![w].pc = "done",
                                 ![w].ops = Append(@, "registrations.insert_one"),
                                 ![w].resp = Response(500, "team_register.html",
                                                ErrorOccurred(e), NoDoc, tr[w].form)]
          /\ UNCHANGED <<teams, nextTeam>>

\* a slip of lines 180-181: the confirmation is rendered from reg_doc, the
\* copy in memory, instead of the document read back
TeamRegisterFindInMemory(w) ==
    /\ tr[w].pc = "find"
    /\ UNCHANGED <<events, teams, nextEvent, nextTeam, session, admin>>
    /\ \/ tr' = [tr EXCEPT ![w].pc = "done",
                           ![w].ops = Append(@, "registrations.find_one"),
                           ![w].resp = Response(200, "download_info.html", None,
                                          DocToJson(tr[w].reg_doc), NoForm)]
       \/ \E e \in StoreErrors :
             tr' = [tr EXCEPT ![w].pc = "done",
                              ![w].ops = Append(@, "registrations.find_one"),
                              ![w].resp = Response(500, "team_register.html",
                                             ErrorOccurred(e), NoDoc, tr[w].form)]

\* lines 180-184: the re-read by res.inserted_id and the confirmation
TeamRegisterFind(w) ==
    /\ tr[w].pc = "find"
    /\ UNCHANGED <<events, teams, nextEvent, nextTeam, session, admin>>
    /\ \/ tr' = [tr EXCEPT ![w].pc = "done",
                           ![w].ops = Append(@, "registrations.find_one"),
                           ![w].resp = Response(200, "download_info.html", None,
                                          DocToJson(FindOne(teams, tr[w].res_id)), NoForm)]
       \/ \E e \in StoreErrors :
             tr' = [tr EXCEPT ![w].pc = "done",
                              ![w].ops = Append(@, "registrations.find_one"),
                              ![w].resp = Response(500, "team_register.html",
                                             ErrorOccurred(e), NoDoc, tr[w].form)]

\* the answer leaves and the worker is free for the next request
TeamRegisterReturn(w) ==
    /\ tr[w].pc = "done"
    /\ tr' = [tr EXCEPT ![w] = Idle]
    /\ UNCHANGED <<events, teams, nextEvent, nextTeam, session, admin>>

\* the forms submitted to /team_register/<event_id>: the page they were
\* filled in on showed the event's max_members positions
SubmittedForms(event_id) ==
    LET event_doc == FindOne(events, ObjectId(event_id))
    IN  IF event_doc = NoDoc THEN {NoForm} ELSE Forms(event_doc.max_members)

-----------------------------------------------------------------------------
(* Admin authentication: admin_required, admin_login, logout.              *)

\* lines 199-200: the configured credentials (the defaults of os.getenv)
ADMIN_USER == "admin"
ADMIN_PASS == "acmvitap"

UsernameInputs == {"admin", "Admin", ""}
PasswordInputs == {"acmvitap", "acmvitap ", ""}

NoArgs == [none |-> TRUE]

\* the admin-side client waits for no answer
NoAdmin == [pc |-> "idle", op |-> "", args |-> NoArgs, ops |-> <<>>,
            flash |-> None, resp |-> NoResponse]

\* the answer of an admin-side request: the handler, its arguments, the
\* store operations it performed, the flashed notice and the response
Answer(op, args, ops, flash, resp) ==
    admin' = [pc |-> "done", op |-> op, args |-> args, ops |-> ops,
              flash |-> flash, resp |-> resp]

Page(name) == Response(200, name, None, NoDoc, NoForm)

\* lines 68-69: the guard's redirect, before the handler runs
Denied(op, args) ==
    /\ "admin" \notin session
    /\ Answer(op, args, <<>>, None, Redirect("admin_login"))
    /\ UNCHANGED <<events, teams, nextEvent, nextTeam, session, tr>>

\* a slip of line 202: the password is not compared
CredentialsMatchUserOnly(username, password) == username = ADMIN_USER

\* line 202
CredentialsMatch(username, password) == username = ADMIN_USER /\ password = ADMIN_PASS

\* lines 193-206
AdminLogin(method, username, password) ==
    /\ admin.pc = "idle"
    /\ UNCHANGED <<events, teams, nextEvent, nextTeam, tr>>
    /\ LET args == [username |-> username, password |-> password, method |-> method]
       IN  \/ /\ method = "GET"
              /\ Answer("admin_login", args, <<>>, None, Page("admin_login.html"))
              /\ UNCHANGED session
           \/ /\ method = "POST"
              /\ CredentialsMatch(username, password)
              /\ session' = session \cup {"admin"}
              /\ Answer("admin_login", args, <<>>, None, Redirect("admin_dashboard"))
           \/ /\ method = "POST"
              /\ ~CredentialsMatch(username, password)
              /\ Answer("admin_login", args, <<>>, None,
                        Response(200, "admin_login.html",
                                 <<"Invalid credentials. Try again.">>, NoDoc, NoForm))
              /\ UNCHANGED session

\* lines 213-216
Logout ==
    /\ admin.pc = "idle"
    /\ session' = session \ {"admin"}
    /\ Answer("logout", NoArgs, <<>>, None, Redirect("home"))
    /\ UNCHANGED <<events, teams, nextEvent, nextTeam, tr>>

\* the store operations of the admin-only handlers that only read:
\* admin_dashboard, view_registered_teams, admin_teams, export_excel,
\* admin_export_teams, admin_stats, legacy_teams
ReadOps ==
    [admin_dashboard |-> <<>>,
     view_registered_teams |-> <<"registrations.find">>,
     admin_teams |-> <<"registrations.count_documents", "registrations.find">>,
     export_excel |-> <<"registrations.find">>,
     admin_export_teams |-> <<"registrations.find">>,
     admin_stats |-> <<"registrations.count_documents", "registrations.count_documents">>,
     legacy_teams |-> <<"hackathon_workshop.find">>]

ReadPages ==
    [admin_dashboard |-> "admin_dashboard.html",
     view_registered_teams |-> "registered_details.html",
     admin_teams |-> "admin_teams.html",
     export_excel |-> "team_details.xlsx",
     admin_export_teams |-> "team_details.xlsx",
     admin_stats |-> "json",
     legacy_teams |-> "legacy_teams.html"]

\* lines 208-211, 323-365, 456-486, 502-506, 535-542
AdminRead(op) ==
    /\ admin.pc = "idle"
    /\ \/ Denied(op, NoArgs)
       \/ /\ "admin" \in session
          /\ Answer(op, NoArgs, ReadOps[op], None, Page(ReadPages[op]))
          /\ UNCHANGED <<events, teams, nextEvent, nextTeam, session, tr>>

\* the answer leaves; the client may send its next request
AdminReturn ==
    /\ admin.pc = "done"
    /\ admin' = NoAdmin
    /\ UNCHANGED <<events, teams, nextEvent, nextTeam, session, tr>>

-----------------------------------------------------------------------------
(* Admin: events.                                                          *)

Max(a, b) == IF a >= b THEN a ELSE b

RECURSIVE DigitsVal(_, _)
DigitsVal(s, acc) ==
    IF s = <<>> THEN acc ELSE DigitsVal(Tail(s), 10 * acc + DigitVal(Head(s)))

\* int(s) of a string: surrounding whitespace and one sign are accepted,
\* anything else than digits raises ValueError (ok = FALSE)
PyInt(s) ==
    LET t == Strip(s)
        signed == t # <<>> /\ Head(t) \in {"-", "+"}
        digits == IF signed THEN Tail(t) ELSE t
    IN  IF digits # <<>> /\ \A j \in 1..Len(digits) : IsDigit(digits[j])
        THEN [ok |-> TRUE,
              val |-> IF signed /\ Head(t) = "-" THEN 0 - DigitsVal(digits, 0)
                      ELSE DigitsVal(digits, 0)]
        ELSE [ok |-> FALSE, val |-> 0]

\* int(request.form.get(key, default)): an absent key gives int(default)
FormInt(v, default) == IF v = None THEN [ok |-> TRUE, val |-> default] ELSE PyInt(v)

\* lines 227-230 and 274-277
ClampMin(form) ==
    LET r == FormInt(form.min_members, 1) IN IF r.ok THEN Max(1, r.val) ELSE 1

\* a slip of lines 232 and 279: max(min_members, ...) is left out
ClampMaxUnclamped(form, min_members) ==
    LET r == FormInt(form.max_members, min_members)
    IN  IF r.ok THEN r.val ELSE min_members

\* lines 231-234 and 278-281
ClampMax(form, min_members) ==
    LET r == FormInt(form.max_members, min_members)
    IN  IF r.ok THEN Max(min_members, r.val) ELSE min_members

On == <<"o", "n">>

\* the event forms the admin submits: event_name, the require_team_name
\* and active checkboxes, min_members and max_members as typed
EventForms ==
    { [event_name |-> <<" ", "A">>, require_team_name |-> On,
       min_members |-> <<"5">>, max_members |-> <<"2">>, active |-> On],
      [event_name |-> <<"A">>, require_team_name |-> None,
       min_members |-> <<"x">>, max_members |-> <<" ", "2">>, active |-> None],
      [event_name |-> E, require_team_name |-> None,
       min_members |-> <<"0">>, max_members |-> <<"-", "1">>, active |-> On],
      [event_name |-> <<"H">>, require_team_name |-> On,
       min_members |-> None, max_members |-> <<"2", ".", "5">>, active |-> On],
      [event_name |-> <<"A">>, require_team_name |-> None,
       min_members |-> <<"2">>, max_members |-> None, active |-> On] }

\* lines 236-243
NewEventDoc(form, now) ==
    [event_name |-> Strip(form.event_name),
     require_team_name |-> (form.require_team_name = On),
     min_members |-> ClampMin(form),
     max_members |-> ClampMax(form, ClampMin(form)),
     active |-> TRUE,
     created_at |-> DateTime(now)]

\* lines 284-291
EventUpdate(form, now) ==
    [event_name |-> Strip(form.event_name),
     require_team_name |-> (form.require_team_name = On),
     min_members |-> ClampMin(form),
     max_members |-> ClampMax(form, ClampMin(form)),
     active |-> (form.active = On),
     updated_at |-> DateTime(now)]

\* line 41: the unique index on event_name that init_db creates; a write
\* that would give two events the same name raises DuplicateKeyError
DuplicateKey(name, oid) ==
    \E n \in StoreOids(events) \ {oid} : events[n].event_name = name

ErrorFlash(e) == <<"Error: ", e>>

\* the <event_id> and <team_id> parts of the admin URLs: malformed, or
\* well-formed (the last one names a document that never existed)
AdminEventIds == {<<"z">>} \cup {OidStr(n) : n \in 1..(MaxEvents + 1)}
AdminTeamIds == {<<"z">>} \cup {OidStr(n) : n \in 1..(MaxTeams + 1)}

\* lines 221-255
AdminEvents(method, form, now) ==
    /\ admin.pc = "idle"
    /\ LET args == [method |-> method, form |-> form]
           doc == NewEventDoc(form, now)
       IN  \/ Denied("admin_events", args)
           \/ /\ "admin" \in session
              /\ method = "GET"
              /\ Answer("admin_events", args, <<"events.find">>, None, Page("admin_events.html"))
              /\ UNCHANGED <<events, teams, nextEvent, nextTeam, session, tr>>
           \/ /\ "admin" \in session
              /\ method = "POST"
              /\ ~DuplicateKey(doc.event_name, 0)
              /\ nextEvent <= MaxEvents
              /\ events' = InsertOne(events, nextEvent, doc)
              /\ nextEvent' = nextEvent + 1
              /\ Answer("admin_events", args, <<"events.insert_one">>,
                        <<"Event created.">>, Redirect("admin_events"))
              /\ UNCHANGED <<teams, nextTeam, session, tr>>
           \/ /\ "admin" \in session
              /\ method = "POST"
              /\ DuplicateKey(doc.event_name, 0)
              /\ Answer("admin_events", args, <<"events.insert_one">>,
                        <<"Event name already exists.">>, Redirect("admin_events"))
              /\ UNCHANGED <<events, teams, nextEvent, nextTeam, session, tr>>
           \/ /\ "admin" \in session
              /\ method = "POST"
              /\ \E e \in StoreErrors :
                    Answer("admin_events", args, <<"events.insert_one">>,
                           ErrorFlash(e), Redirect("admin_events"))
              /\ UNCHANGED <<events, teams, nextEvent, nextTeam, session, tr>>

\* lines 257-302
AdminEditEvent(method, event_id, form, now) ==
    /\ admin.pc = "idle"
    /\ UNCHANGED <<teams, nextEvent, nextTeam, session, tr>>
    /\ LET args == [method |-> method, id |-> event_id, form |-> form]
           oid == ObjectId(event_id)
           update == EventUpdate(form, now)
           found == FindOne(events, oid) # NoDoc
       IN  \/ Denied("admin_edit_event", args)
           \/ /\ "admin" \in session
              /\ oid = 0
              /\ Answer("admin_edit_event", args, <<>>,
                        <<"Invalid event id.">>, Redirect("admin_events"))
              /\ UNCHANGED events
           \/ /\ "admin" \in session
              /\ oid # 0
              /\ ~found
              /\ Answer("admin_edit_event", args, <<"events.find_one">>,
                        <<"Event not found.">>, Redirect("admin_events"))
              /\ UNCHANGED events
           \/ /\ "admin" \in session
              /\ found
              /\ method = "GET"
              /\ Answer("admin_edit_event", args, <<"events.find_one">>,
                        None, Page("admin_edit_event.html"))
              /\ UNCHANGED events
           \/ /\ "admin" \in session
              /\ found
              /\ method = "POST"
              /\ ~DuplicateKey(update.event_name, oid)
              /\ events' = UpdateOne(events, oid, update)
              /\ Answer("admin_edit_event", args, <<"events.find_one", "events.update_one">>,
                        <<"Event updated.">>, Redirect("admin_events"))
           \/ /\ "admin" \in session
              /\ found
              /\ method = "POST"
              /\ DuplicateKey(update.event_name, oid)
              /\ Answer("admin_edit_event", args, <<"events.find_one", "events.update_one">>,
                        <<"Event name conflicts with existing event.">>,
                        Redirect("admin_events"))
              /\ UNCHANGED events
           \/ /\ "admin" \in session
              /\ found
              /\ method = "POST"
              /\ \E e \in StoreErrors :
                    Answer("admin_edit_event", args, <<"events.find_one", "events.update_one">>,
                           ErrorFlash(e), Redirect("admin_events"))
              /\ UNCHANGED events

\* lines 304-318
AdminDeleteEvent(event_id) ==
    /\ admin.pc = "idle"
    /\ UNCHANGED <<teams, nextEvent, nextTeam, session, tr>>
    /\ LET args == [id |-> event_id]
           oid == ObjectId(event_id)
       IN  \/ Denied("admin_delete_event", args)
           \/ /\ "admin" \in session
              /\ oid = 0
              /\ Answer("admin_delete_event", args, <<>>,
                        <<"Invalid event id.">>, Redirect("admin_events"))
              /\ UNCHANGED events
           \/ /\ "admin" \in session
              /\ oid # 0
              /\ events' = DeleteOne(events, oid)
              /\ Answer("admin_delete_event", args, <<"events.delete_one">>,
                        <<"Event deleted.">>, Redirect("admin_events"))
           \/ /\ "admin" \in session
              /\ oid # 0
              /\ \E e \in StoreErrors :
                    Answer("admin_delete_event", args, <<"events.delete_one">>,
                           ErrorFlash(e), Redirect("admin_events"))
              /\ UNCHANGED events

-----------------------------------------------------------------------------
(* Admin: registrations.                                                   *)

\* lines 401-412: the members of an edit form, up to the first absent
\* member_{i}_name key; a position with no non-empty field is left out
RECURSIVE EditMembers(_, _, _)
EditMembers(form, i, members) ==
    IF i > Len(form.members)
    THEN members
    ELSE LET name == Strip(form.members[i].name)
             email == Strip(form.members[i].email)
             reg == Strip(form.members[i].reg_no)
         IN  EditMembers(form, i + 1,
                IF name # E \/ email # E \/ reg # E
                THEN Append(members, [name |-> name, email |-> email, reg_no |-> reg])
                ELSE members)

\* lines 392-415: the fields update_one sets
TeamUpdate(form, now) ==
    LET data == [team_name |-> Strip(form.team_name),
                 team_lead_name |-> Strip(form.team_lead_name),
                 team_lead_email |-> Strip(form.team_lead_email),
                 team_lead_phone |-> Strip(form.team_lead_phone),
                 team_lead_reg_no |-> Strip(form.team_lead_reg_no),
                 updated_at |-> DateTime(now)]
        members == EditMembers(form, 1, <<>>)
    IN  IF members # <<>> THEN data @@ [members |-> members] ELSE data

\* the edit forms the admin submits for a registration
TeamEditForms ==
    { MkForm(<<" ", "X">>,
             [team_lead_name |-> <<"K">>, team_lead_email |-> <<"k">>,
              team_lead_phone |-> E, team_lead_reg_no |-> E],
             <<>>),
      MkForm(E,
             [team_lead_name |-> <<" ">>, team_lead_email |-> E,
              team_lead_phone |-> E, team_lead_reg_no |-> E],
             << [name |-> <<" ", "b">>, email |-> E, reg_no |-> E],
                [name |-> E, email |-> E, reg_no |-> E] >>) }

\* lines 368-380
AdminViewTeam(team_id) ==
    /\ admin.pc = "idle"
    /\ LET args == [id |-> team_id]
           oid == ObjectId(team_id)
       IN  \/ Denied("admin_view_team", args)
           \/ /\ "admin" \in session
              /\ UNCHANGED <<events, teams, nextEvent, nextTeam, session, tr>>
              /\ \/ /\ oid = 0
                    /\ Answer("admin_view_team", args, <<>>,
                              <<"Invalid team id.">>, Redirect("admin_teams"))
                 \/ /\ oid # 0
                    /\ FindOne(teams, oid) = NoDoc
                    /\ Answer("admin_view_team", args, <<"registrations.find_one">>,
                              <<"Team not found.">>, Redirect("admin_teams"))
                 \/ /\ FindOne(teams, oid) # NoDoc
                    /\ Answer("admin_view_team", args, <<"registrations.find_one">>, None,
                              Response(200, "edit_team.html", None,
                                       DocToJson(FindOne(teams, oid)), NoForm))

\* lines 382-432
AdminEditTeam(method, team_id, form, now) ==
    /\ admin.pc = "idle"
    /\ LET args == [method |-> method, id |-> team_id, form |-> form]
           oid == ObjectId(team_id)
           matched == FindOne(teams, oid) # NoDoc
       IN  \/ Denied("admin_edit_team", args)
           \/ /\ "admin" \in session
              /\ UNCHANGED <<events, nextEvent, nextTeam, session, tr>>
              /\ \/ /\ oid = 0
                    /\ Answer("admin_edit_team", args, <<>>,
                              <<"Invalid team id.">>, Redirect("admin_teams"))
                    /\ UNCHANGED teams
                 \/ /\ oid # 0
                    /\ method = "POST"
                    /\ teams' = UpdateOne(teams, oid, TeamUpdate(form, now))
                    /\ Answer("admin_edit_team", args, <<"registrations.update_one">>,
                              IF matched THEN <<"Team updated successfully.">>
                                         ELSE <<"Team not found.">>,
                              Redirect("admin_teams"))
                 \/ /\ oid # 0
                    /\ method = "POST"
                    /\ \E e \in StoreErrors :
                          Answer("admin_edit_team", args, <<"registrations.update_one">>,
                                 <<"Error updating team: ", e>>, Redirect("admin_teams"))
                    /\ UNCHANGED teams
                 \/ /\ oid # 0
                    /\ method = "GET"
                    /\ ~matched
                    /\ Answer("admin_edit_team", args, <<"registrations.find_one">>,
                              <<"Team not found.">>, Redirect("admin_teams"))
                    /\ UNCHANGED teams
                 \/ /\ method = "GET"
                    /\ matched
                    /\ Answer("admin_edit_team", args, <<"registrations.find_one">>, None,
                              Response(200, "edit_team.html", None,
                                       DocToJson(FindOne(teams, oid)), NoForm))
                    /\ UNCHANGED teams

\* lines 444-447: the notice after delete_one, by result.deleted_count
TeamDeletedFlash(deleted_count) ==
    IF deleted_count = 0 THEN <<"Team not found or already deleted.">>
                         ELSE <<"Team deleted successfully.">>

\* lines 434-451
AdminDeleteTeam(team_id) ==
    /\ admin.pc = "idle"
    /\ LET args == [id |-> team_id]
           oid == ObjectId(team_id)
           deleted_count == IF FindOne(teams, oid) # NoDoc THEN 1 ELSE 0
       IN  \/ Denied("admin_delete_team", args)
           \/ /\ "admin" \in session
              /\ UNCHANGED <<events, nextEvent, nextTeam, session, tr>>
              /\ \/ /\ oid = 0
                    /\ Answer("admin_delete_team", args, <<>>,
                              <<"Invalid team id.">>, Redirect("admin_teams"))
                    /\ UNCHANGED teams
                 \/ /\ oid # 0
                    /\ teams' = DeleteOne(teams, oid)
                    /\ Answer("admin_delete_team", args, <<"registrations.delete_one">>,
                              TeamDeletedFlash(deleted_count), Redirect("admin_teams"))
                 \/ /\ oid # 0
                    /\ \E e \in StoreErrors :
                          Answer("admin_delete_team", args, <<"registrations.delete_one">>,
                                 <<"Error deleting team: ", e>>, Redirect("admin_teams"))
                    /\ UNCHANGED teams

-----------------------------------------------------------------------------
(* The registration workflow on an event the admin has created.            *)

EventDoc(oid, name, rtn, m, n, active, t) ==
    [_id |-> oid, event_name |-> name, require_team_name |-> rtn,
     min_members |-> m, max_members |-> n, active |-> active,
     created_at |-> DateTime(t)]

EmptyStore(n) == [i \in 1..n |-> NoDoc]

Init ==
    /\ \E rtn \in BOOLEAN, n \in 1..MaxMembers : \E m \in 1..n :
          events = [EmptyStore(MaxEvents) EXCEPT
                        ![1] = EventDoc(1, <<"H">>, rtn, m, n, TRUE, "t1")]
    /\ nextEvent = 2
    /\ teams = EmptyStore(MaxTeams)
    /\ nextTeam = 1
    /\ session = {}
    /\ tr = [w \in Workers |-> Idle]
    /\ admin = NoAdmin

Next ==
    \/ \E w \in Workers, method \in Methods, event_id \in EventIdInputs, found \in BOOLEAN :
            TeamRegister(w, method, event_id, NoForm, "t1", found)
    \/ \E w \in Workers :
         /\ tr[w].pc = "idle"
         /\ \E event_id \in EventIdInputs : \E form \in SubmittedForms(event_id) :
               TeamRegister(w, "POST", event_id, form, "t1", TRUE)
    \/ \E w \in Workers : TeamRegisterInsert(w)
    \/ \E w \in Workers : TeamRegisterFind(w)
    \/ \E w \in Workers : TeamRegisterReturn(w)

Spec == Init /\ [][Next]_vars

-----------------------------------------------------------------------------
(* The admin side: one browser session working on the two collections,     *)
(* which hold an event and a registration made for it.                     *)

SampleEvent == EventDoc(1, <<"H">>, TRUE, 1, 2, TRUE, "t1")

SampleForm ==
    MkForm(<<"T">>,
           [team_lead_name |-> <<"L">>, team_lead_email |-> <<"l">>,
            team_lead_phone |-> <<"9">>, team_lead_reg_no |-> E],
           << [name |-> <<"a">>, email |-> <<"m">>, reg_no |-> E],
              [name |-> E, email |-> E, reg_no |-> E] >>)

SampleTeam == RegDoc(SampleForm, DocToJson(SampleEvent), "t1")

NoEventForm ==
    [event_name |-> E, require_team_name |-> None, min_members |-> None,
     max_members |-> None, active |-> None]

AdminInit ==
    /\ events = [EmptyStore(MaxEvents) EXCEPT ![1] = SampleEvent]
    /\ nextEvent = 2
    /\ teams = InsertOne(EmptyStore(MaxTeams), 1, SampleTeam)
    /\ nextTeam = 2
    /\ session = {}
    /\ tr = [w \in Workers |-> Idle]
    /\ admin = NoAdmin

AdminNext ==
    \/ \E method \in Methods, username \in UsernameInputs, password \in PasswordInputs :
            AdminLogin(method, username, password)
    \/ Logout
    \/ \E op \in DOMAIN ReadOps : AdminRead(op)
    \/ AdminEvents("GET", NoEventForm, "t2")
    \/ \E form \in EventForms : AdminEvents("POST", form, "t2")
    \/ \E event_id \in AdminEventIds : AdminEditEvent("GET", event_id, NoEventForm, "t2")
    \/ \E event_id \in AdminEventIds, form \in EventForms :
            AdminEditEvent("POST", event_id, form, "t2")
    \/ \E event_id \in AdminEventIds : AdminDeleteEvent(event_id)
    \/ \E team_id \in AdminTeamIds : AdminViewTeam(team_id)
    \/ \E team_id \in AdminTeamIds : AdminEditTeam("GET", team_id, NoForm, "t2")
    \/ \E team_id \in AdminTeamIds, form \in TeamEditForms :
            AdminEditTeam("POST", team_id, form, "t2")
    \/ \E team_id \in AdminTeamIds : AdminDeleteTeam(team_id)
    \/ AdminReturn

AdminSpec == AdminInit /\ [][AdminNext]_vars

-----------------------------------------------------------------------------
(* Submissions and admin requests together: the logged-in admin edits the  *)
(* event and edits or deletes registrations while team_register runs.      *)

\* the forms submitted while the admin is at work: one member, two
\* members, and a first member without a name
RaceForms ==
    { SampleForm,
      MkForm(<<"T">>,
             [team_lead_name |-> <<"L">>, team_lead_email |-> <<"l">>,
              team_lead_phone |-> E, team_lead_reg_no |-> E],
             << [name |-> <<"a">>, email |-> <<"m">>, reg_no |-> E],
                [name |-> <<"b">>, email |-> <<"n">>, reg_no |-> E] >>),
      MkForm(<<"T">>,
             [team_lead_name |-> <<"L">>, team_lead_email |-> <<"l">>,
              team_lead_phone |-> E, team_lead_reg_no |-> E],
             << [name |-> <<" ">>, email |-> <<"m">>, reg_no |-> E],
                [name |-> E, email |-> E, reg_no |-> E] >>) }

\* the event edits submitted meanwhile: they raise min_members to 5, or
\* lower max_members to 1
RaceEventForms == {f \in EventForms : f.min_members \in {<<"5">>, <<"0">>}}

RaceInit ==
    /\ events = [EmptyStore(MaxEvents) EXCEPT ![1] = SampleEvent]
    /\ nextEvent = 2
    /\ teams = EmptyStore(MaxTeams)
    /\ nextTeam = 1
    /\ session = {"admin"}
    /\ tr = [w \in Workers |-> Idle]
    /\ admin = NoAdmin

RaceNext ==
    \/ \E w \in Workers, form \in RaceForms :
            TeamRegister(w, "POST", OidStr(1), form, "t1", TRUE)
    \/ \E w \in Workers : TeamRegisterInsert(w)
    \/ \E w \in Workers : TeamRegisterFind(w)
    \/ \E w \in Workers : TeamRegisterReturn(w)
    \/ \E form \in RaceEventForms : AdminEditEvent("POST", OidStr(1), form, "t2")
    \/ \E team_id \in AdminTeamIds, form \in TeamEditForms :
            AdminEditTeam("POST", team_id, form, "t2")
    \/ \E team_id \in AdminTeamIds : AdminDeleteTeam(team_id)
    \/ AdminReturn

RaceSpec == RaceInit /\ [][RaceNext]_vars

-----------------------------------------------------------------------------
(* Properties of the registration workflow.                                *)

\* worker w has read a submitted form under the rules of a resolved event
Submitted(w) == tr[w].method = "POST" /\ tr[w].event # NoDoc

\* worker w's insert_one has succeeded
Inserted(w) == tr[w].res_id # 0

Trimmed(form, i) ==
    [name |-> Strip(FormGet(form, i, "name")),
     email |-> Strip(FormGet(form, i, "email")),
     reg_no |-> Strip(FormGet(form, i, "reg_no"))]

AllEmpty(form, i) == Trimmed(form, i) = [name |-> E, email |-> E, reg_no |-> E]

LacksNameOrEmail(form, i) == Trimmed(form, i).name = E \/ Trimmed(form, i).email = E

\* the positions whose record the claim says is stored
KeptPositions(form, m, n) == {i \in 1..n : i <= m \/ ~AllEmpty(form, i)}

\* the j-th smallest element of a set of integers
NthOf(S, j) == CHOOSE i \in S : Cardinality({k \in S : k < i}) = j - 1

InsertCount(ops) == Cardinality({j \in 1..Len(ops) : ops[j] = "registrations.insert_one"})

\* C1: for an event with min_members = m and max_members = n, 1 <= m <= n,
\* the member sequence stored by an accepted submission is, in increasing
\* position order, the trimmed records of the positions i in 1..n with
\* i <= m or a non-empty field; valid data at 1..m and empty data at
\* m+1..n give a stored sequence of length exactly m.
C1_StoredMembers ==
    \A w \in Workers :
        Inserted(w) =>
            LET form == tr[w].form
                m == tr[w].event.min_members
                n == tr[w].event.max_members
                kept == KeptPositions(form, m, n)
                stored == teams[tr[w].res_id].members
            IN  /\ 1 <= m /\ m <= n
                /\ Len(stored) = Cardinality(kept)
                /\ \A j \in 1..Len(stored) : stored[j] = Trimmed(form, NthOf(kept, j))
                /\ (\A i \in (m + 1)..n : AllEmpty(form, i)) => Len(stored) = m

\* C1's case: an optional position left empty, so fewer records than positions
C1_Witness ==
    \E w \in Workers :
        /\ Inserted(w)
        /\ tr[w].event.min_members < tr[w].event.max_members
        /\ Len(tr[w].form.members) = tr[w].event.max_members
        /\ \A i \in 1..tr[w].event.max_members :
                i > tr[w].event.min_members => AllEmpty(tr[w].form, i)
        /\ Len(teams[tr[w].res_id].members) = tr[w].event.min_members

\* C2: a submission in which some position i <= min_members lacks its name
\* or its email after trimming is answered 400 with the message "Member k
\* name and email are required." for the smallest such k, and no insert of
\* a registration is attempted.
C2_MissingMemberRejected ==
    \A w \in Workers :
        LET form == tr[w].form
            missing == {i \in 1..tr[w].event.min_members : LacksNameOrEmail(form, i)}
        IN  (Submitted(w) /\ missing # {}) =>
                /\ tr[w].pc = "done"
                /\ tr[w].resp.status = 400
                /\ tr[w].resp.error = MemberRequired(NthOf(missing, 1))
                /\ InsertCount(tr[w].ops) = 0
                /\ ~Inserted(w)

\* C2's case: the first required position is fine and a later one is not
C2_Witness ==
    \E w \in Workers :
        /\ Submitted(w)
        /\ ~LacksNameOrEmail(tr[w].form, 1)
        /\ LacksNameOrEmail(tr[w].form, 2)
        /\ tr[w].event.min_members >= 2
        /\ tr[w].resp.error = MemberRequired(2)

\* C3: a registration document persisted by team_register has team_name
\* None when the event has require_team_name = false, whatever the form
\* carried, and the non-empty trimmed submitted value when it is true.
C3_TeamNameShaped ==
    \A w \in Workers :
        Inserted(w) =>
            LET stored == teams[tr[w].res_id].team_name
            IN  IF tr[w].event.require_team_name
                THEN stored = Strip(tr[w].form.team_name) /\ stored # E /\ stored # None
                ELSE stored = None

\* C3's case: a team name submitted to an event that asks for none
C3_Witness ==
    \E w \in Workers :
        /\ Inserted(w)
        /\ ~tr[w].event.require_team_name
        /\ Strip(tr[w].form.team_name) # E
        /\ teams[tr[w].res_id].team_name = None

LeadMissing(form) == Strip(form.team_lead_name) = E \/ Strip(form.team_lead_email) = E

MembersPass(w) ==
    \A i \in 1..tr[w].event.min_members : ~LacksNameOrEmail(tr[w].form, i)

\* C4: a submission that lacks the team lead's name or email, whatever the
\* event's rules, or that has an empty team name on an event with
\* require_team_name = true, is answered 400 with the specific message, and
\* no insert is attempted.
C4_LeadAndTeamNameRejected ==
    \A w \in Workers :
        LET form == tr[w].form
            noTeamName == tr[w].event.require_team_name /\ Strip(form.team_name) = E
        IN  (Submitted(w) /\ (LeadMissing(form) \/ noTeamName)) =>
                /\ tr[w].pc = "done"
                /\ tr[w].resp.status = 400
                /\ tr[w].resp.page = "team_register.html"
                /\ (MembersPass(w) /\ LeadMissing(form)) => tr[w].resp.error = LeadRequired
                /\ (MembersPass(w) /\ ~LeadMissing(form)) => tr[w].resp.error = TeamNameRequired
                /\ tr[w].resp.error # None
                /\ InsertCount(tr[w].ops) = 0
                /\ ~Inserted(w)

\* C4's case: the lead's fields are missing on an event that asks no team name
C4_Witness ==
    \E w \in Workers :
        /\ Submitted(w)
        /\ ~tr[w].event.require_team_name
        /\ MembersPass(w)
        /\ LeadMissing(tr[w].form)
        /\ tr[w].resp.status = 400
        /\ tr[w].resp.error = LeadRequired

\* C8: a team_register submission answered 500 because a store operation
\* failed leaves no document of that request in the Registration Store, and
\* has attempted the insert at most once.
C8_FailedWriteDiscarded ==
    \A w \in Workers :
        (tr[w].pc = "done" /\ tr[w].resp.status = 500) =>
            /\ InsertCount(tr[w].ops) <= 1
            /\ Inserted(w) => FindOne(teams, tr[w].res_id) = NoDoc

-----------------------------------------------------------------------------
(* Properties of the admin side.                                           *)

AdminOnlyOps ==
    {"admin_events", "admin_edit_event", "admin_delete_event",
     "admin_view_team", "admin_edit_team", "admin_delete_team"} \cup DOMAIN ReadOps

\* the step is the answer to a new admin-side request
Answers == admin.pc = "idle" /\ admin'.pc = "done"

\* C5: an admin-only operation executes only if the session's admin flag
\* is set: without the flag the request is redirected to the login page
\* and neither reads nor modifies a store; the flag is set only by an
\* admin_login POST whose username and password both equal the configured
\* credentials; logout clears it, so that the same holds after a logout
\* until the next successful login.
C5_AdminGuard ==
    /\ [](  (admin.pc = "done" /\ admin.op \in AdminOnlyOps /\ "admin" \notin session) =>
                /\ admin.resp = Redirect("admin_login")
                /\ admin.ops = <<>>
                /\ admin.flash = None)
    /\ [][ /\ (Answers /\ admin'.op \in AdminOnlyOps /\ "admin" \notin session) =>
                /\ events' = events /\ teams' = teams
                /\ nextEvent' = nextEvent /\ nextTeam' = nextTeam
                /\ session' = session
           /\ ("admin" \notin session /\ "admin" \in session') =>
                /\ admin'.op = "admin_login"
                /\ admin'.args.method = "POST"
                /\ admin'.args.username = ADMIN_USER
                /\ admin'.args.password = ADMIN_PASS
           /\ (Answers /\ admin'.op = "logout") => "admin" \notin session'
         ]_vars

\* C5's case: an event was created (so a login succeeded), the session is
\* logged out again, and a delete request is turned away
C5_Witness ==
    /\ StoreOids(events) = {1, 2}
    /\ "admin" \notin session
    /\ admin.pc = "done"
    /\ admin.op = "admin_delete_event"
    /\ admin.args.id = OidStr(2)
    /\ admin.resp = Redirect("admin_login")

\* what the claim says min_members and max_members become
ExpectedMin(form) ==
    LET r == FormInt(form.min_members, 1)
    IN  IF r.ok /\ r.val >= 1 THEN r.val ELSE 1

ExpectedMax(form) ==
    LET r == FormInt(form.max_members, ExpectedMin(form))
    IN  IF r.ok /\ r.val >= ExpectedMin(form) THEN r.val ELSE ExpectedMin(form)

\* C6: after any sequence of event create and edit requests, whatever was
\* typed for min_members and max_members, every stored event has
\* max_members >= min_members >= 1; the input is clamped, not rejected: a
\* created or updated event holds min_members = the typed integer if it is
\* one and >= 1, else 1, and max_members = the typed integer if it is one
\* and >= min_members, else min_members (typed 5 and 2 are stored as 5, 5).
C6_MembersClamped ==
    /\ \A n \in StoreOids(events) :
            events[n].max_members >= events[n].min_members /\ events[n].min_members >= 1
    /\ (admin.pc = "done" /\ admin.flash = <<"Event created.">>) =>
            /\ events[nextEvent - 1].min_members = ExpectedMin(admin.args.form)
            /\ events[nextEvent - 1].max_members = ExpectedMax(admin.args.form)
    /\ (admin.pc = "done" /\ admin.flash = <<"Event updated.">>) =>
            /\ events[ObjectId(admin.args.id)].min_members = ExpectedMin(admin.args.form)
            /\ events[ObjectId(admin.args.id)].max_members = ExpectedMax(admin.args.form)
    /\ (admin.pc = "done" /\ admin.op \in {"admin_events", "admin_edit_event"}
          /\ admin.resp.status = 302 /\ admin.flash # None) =>
            \/ admin.flash \in {<<"Event created.">>, <<"Event updated.">>,
                                <<"Event name already exists.">>,
                                <<"Event name conflicts with existing event.">>,
                                <<"Invalid event id.">>, <<"Event not found.">>}
            \/ \E e \in StoreErrors : admin.flash = ErrorFlash(e)

\* C6's case: min_members = 5 and max_members = 2 typed, 5 and 5 stored
C6_Witness ==
    /\ admin.pc = "done"
    /\ admin.flash = <<"Event created.">>
    /\ admin.args.form.min_members = <<"5">>
    /\ admin.args.form.max_members = <<"2">>
    /\ events[nextEvent - 1].min_members = 5
    /\ events[nextEvent - 1].max_members = 5

NotFoundNotices == {<<"Event not found.">>, <<"Team not found.">>,
                    <<"Team not found or already deleted.">>}

DeletedNotices == {<<"Event deleted.">>, <<"Team deleted successfully.">>}

\* the collection a delete handler works on
DeleteTarget(op, ev, tm) == IF op = "admin_delete_event" THEN ev ELSE tm

\* C9: admin_delete_event and admin_delete_team, given a well-formed
\* identifier, always answer with a redirect, flash a "not found" notice
\* when no document with that identifier existed, and flash a "deleted"
\* notice only when a document was removed.
C9_DeleteNotices ==
    [][ (/\ Answers
         /\ admin'.op \in {"admin_delete_event", "admin_delete_team"}
         /\ "admin" \in session
         /\ ObjectId(admin'.args.id) # 0) =>
            LET oid == ObjectId(admin'.args.id)
                before == FindOne(DeleteTarget(admin'.op, events, teams), oid)
                after == FindOne(DeleteTarget(admin'.op, events', teams'), oid)
                failed == \E e \in StoreErrors :
                            admin'.flash \in {ErrorFlash(e), <<"Error deleting team: ", e>>}
            IN  /\ admin'.resp.status = 302
                /\ (before = NoDoc /\ ~failed) => admin'.flash \in NotFoundNotices
                /\ admin'.flash \in DeletedNotices => (before # NoDoc /\ after = NoDoc)
      ]_vars

-----------------------------------------------------------------------------
(* Properties of submissions running beside admin requests.                *)

\* worker w's step is the re-read that ends in the confirmation view
Confirms(w) == tr[w].pc = "find" /\ tr'[w].pc = "done" /\ tr'[w].resp.status = 200

\* C7 as claimed: the document team_register re-reads and renders in the
\* confirmation equals, in every field, the document it submitted for
\* insertion and what is stored, whatever ran between insert and re-read.
C7_ConfirmationIsSubmitted ==
    [][ \A w \in Workers :
            Confirms(w) =>
                /\ tr'[w].resp.data = DocToJson(tr[w].reg_doc)
                /\ tr'[w].resp.data = DocToJson(FindOne(teams, tr[w].res_id))
      ]_vars

\* C7 as the code has it: the confirmation renders the document held in
\* the store at the moment of the re-read.  That is the submitted document
\* unless an admin request ran between the insert and the re-read: after
\* admin_edit_team it is the edited document, which keeps _id, event_id,
\* event_name and created_at and carries the edit's updated_at; after
\* admin_delete_team it is no document at all.
C7_ConfirmationIsStored ==
    [][ \A w \in Workers :
            Confirms(w) =>
                LET data == tr'[w].resp.data
                    sent == DocToJson(tr[w].reg_doc)
                IN  /\ data = DocToJson(FindOne(teams, tr[w].res_id))
                    /\ tr'[w].resp.page = "download_info.html"
                    /\ \/ data = sent
                       \/ data = NoDoc
                       \/ /\ "updated_at" \in DOMAIN data
                          /\ data._id = sent._id
                          /\ data.event_id = sent.event_id
                          /\ data.event_name = sent.event_name
                          /\ data.created_at = sent.created_at
      ]_vars

\* C7's case: an admin edit ran between the insert and the re-read, and the
\* confirmation shows the edited registration
C7_Witness ==
    \E w \in Workers :
        /\ tr[w].pc = "done"
        /\ tr[w].resp.status = 200
        /\ tr[w].resp.page = "download_info.html"
        /\ tr[w].resp.data # NoDoc
        /\ "updated_at" \in DOMAIN tr[w].resp.data
        /\ tr[w].resp.data.team_lead_name # tr[w].reg_doc.team_lead_name

\* worker w's step is a successful insert_one
Inserts(w) == tr[w].pc = "insert" /\ tr'[w].pc = "find"

\* a member sequence obeys the rules min_members = m, max_members = n
ObeysRules(members, m, n) ==
    /\ Len(members) <= n
    /\ \A i \in 1..m : i <= Len(members) /\ members[i].name # E /\ members[i].email # E

\* C10 as claimed: at the moment of the insert the member sequence obeys
\* the rules the owning event has in the Event Store at that moment,
\* whatever admin event edits ran since the handler read the event.
C10_ObeysStoredRules ==
    [][ \A w \in Workers :
            Inserts(w) =>
                LET owner == FindOne(events, ObjectId(tr[w].event._id))
                IN  owner # NoDoc =>
                        ObeysRules(teams'[tr'[w].res_id].members,
                                   owner.min_members, owner.max_members)
      ]_vars

\* C10 as the code has it: at the moment of the insert the member sequence
\* obeys the rules the handler read at line 123, at the start of the
\* request: its length is at most that max_members and its first
\* min_members entries have a non-empty name and email.
C10_ObeysReadRules ==
    [][ \A w \in Workers :
            Inserts(w) =>
                ObeysRules(teams'[tr'[w].res_id].members,
                           tr[w].event.min_members, tr[w].event.max_members)
      ]_vars

\* C10's case: the registration is inserted after an admin edit changed
\* the rules the handler had read
C10_Witness ==
    \E w \in Workers :
        /\ tr[w].pc = "find"
        /\ FindOne(teams, tr[w].res_id) = tr[w].reg_doc
        /\ FindOne(events, 1) # NoDoc
        /\ FindOne(events, 1).max_members < Len(tr[w].reg_doc.members)
        /\ admin.pc = "idle"

-----------------------------------------------------------------------------
(* Event names                                                             *)

\* every stored event has a non-empty name
NamesNonEmpty == \A n \in StoreOids(events) : events[n].event_name # E

\* no two stored events share a name
NamesUnique ==
    \A n, k \in StoreOids(events) :
        events[n].event_name = events[k].event_name => n = k

\* the answered request is a create, or an edit of an existing event, whose
\* name (as typed, stripped) is the name of another stored event
WouldDuplicate ==
    /\ Answers
    /\ "admin" \in session
    /\ admin'.op \in {"admin_events", "admin_edit_event"}
    /\ admin'.args.method = "POST"
    /\ LET name == Strip(admin'.args.form.event_name)
           oid == IF admin'.op = "admin_edit_event" THEN ObjectId(admin'.args.id) ELSE 0
       IN  /\ admin'.op = "admin_edit_event" => FindOne(events, oid) # NoDoc
           /\ \E n \in StoreOids(events) \ {oid} : events[n].event_name = name

\* a duplicating write is answered by a redirect with a warning and
\* changes nothing in the Event Store
DuplicateCaught ==
    WouldDuplicate =>
        /\ admin'.resp = Redirect("admin_events")
        /\ admin'.flash # None
        /\ admin'.flash \notin {<<"Event created.">>, <<"Event updated.">>}
        /\ events' = events
        /\ nextEvent' = nextEvent

\* C11: after any sequence of admin event create and edit requests every
\* event in the Event Store has a non-empty name and no two events share a
\* name; a create or edit that would duplicate an existing name is caught,
\* answered by a redirect with a flashed warning, and leaves the Event
\* Store unchanged.
C11_NamesRequiredUnique ==
    /\ [](NamesNonEmpty /\ NamesUnique)
    /\ [][DuplicateCaught]_vars

\* the part of C11 that the unique index of line 41 carries, without the
\* requirement that names be non-empty
C11_NamesUniqueCaught ==
    /\ []NamesUnique
    /\ [][DuplicateCaught]_vars

=============================================================================
